---- MODULE Spec2Model ----
(***************************************************************************)
(* A model of crawl_and_verify.py: the include extractor                   *)
(* (get_includes_from_shader), the suggestion search                       *)
(* (find_similar_include) and the two-pass crawl (crawl_and_verify).       *)
(*                                                                         *)
(* Text is modelled character by character: a Python str is a sequence of  *)
(* one-character strings, so that the regular expressions, os.path and     *)
(* difflib.SequenceMatcher are modelled by what they do to the characters. *)
(***************************************************************************)
EXTENDS Integers, Sequences, FiniteSets, TLC

VARIABLES
    pc,               \* position of the running function
    file_text,        \* get_includes_from_shader: the text of the file on disk
    file_fault,       \* get_includes_from_shader: what open()/read() raises, or None
    content,          \* get_includes_from_shader: local `content`
    included_files,   \* get_includes_from_shader: local `included_files`
    cwd,              \* the process's working directory (os.getcwd())
    crawl_path,       \* crawl_and_verify: the argument
    fs,               \* the files under the scan root
    walk,             \* os.walk: the directories still to be yielded (a stack)
    files,            \* crawl_and_verify: what is left of `files` in the inner loop
    directory,        \* crawl_and_verify: loop variable `directory`
    all_files,        \* crawl_and_verify: local `all_files`
    all_includes,     \* crawl_and_verify: local `all_includes` (in insertion order)
    errors,           \* the paths printed by "Error processing file ..."
    verified,         \* pass 2: number of entries of all_includes already verified
    report,           \* what pass 2 printed
    original_include, \* find_similar_include: argument
    max_similarity,   \* find_similar_include: local (a ratio num/den)
    suggested_include, \* find_similar_include: local
    to_compare        \* find_similar_include: what is left of `for file in all_files`

vars == <<pc, file_text, file_fault, content, included_files, cwd, crawl_path, fs, walk,
          files, directory, all_files, all_includes, errors, verified, report,
          original_include, max_similarity, suggested_include, to_compare>>

extractVars == <<file_text, file_fault, content, included_files>>
crawlVars == <<cwd, crawl_path, fs, walk, files, directory, all_includes, errors,
               verified, report>>
similarVars == <<original_include, max_similarity, suggested_include, to_compare>>

-----------------------------------------------------------------------------
(* Strings *)

\* Python's None, where an exception name could stand
None == "None"

\* Python's None, where a str could stand
NoPath == <<"None">>

Min(S) == CHOOSE x \in S : \A y \in S : x <= y

Max(S) == CHOOSE x \in S : \A y \in S : x >= y

Range(s) == {s[i] : i \in 1..Len(s)}

\* s[i:j] of Python with 1-based inclusive bounds: the characters i..j
Slice(s, i, j) == IF j < i THEN <<>> ELSE SubSeq(s, i, j)

\* s.startswith(p, at i)
HasAt(s, i, p) ==
    /\ i >= 1
    /\ i + Len(p) - 1 <= Len(s)
    /\ \A k \in 1..Len(p) : s[i + k - 1] = p[k]

RECURSIVE Flatten(_)
Flatten(ss) == IF ss = <<>> THEN <<>> ELSE Head(ss) \o Flatten(Tail(ss))

-----------------------------------------------------------------------------
(* get_includes_from_shader: the three regular expressions *)

\* what \s matches (ASCII whitespace that a TLA+ string can spell)
Whitespace == {" ", "\t", "\n", "\r", "\f"}

\* the position of the end of the line that position i is on: the next "\n",
\* or one past the end of the text ($ under re.MULTILINE; . stops at "\n")
EndOfLine(s, i) == Min({j \in i..(Len(s) + 1) : j = Len(s) + 1 \/ s[j] = "\n"})

\* the positions at or after i where p occurs
Occurrences(s, i, p) == {k \in i..Len(s) : HasAt(s, k, p)}

\* re.sub(r'\/\/.*?$', '', content, flags=re.MULTILINE), scanning from i:
\* the text up to the next "//" is kept, the rest of that line is dropped
RECURSIVE SubSingleLineFrom(_, _)
SubSingleLineFrom(s, i) ==
    LET opens == Occurrences(s, i, <<"/", "/">>) IN
    IF opens = {} THEN Slice(s, i, Len(s))
    ELSE Slice(s, i, Min(opens) - 1) \o SubSingleLineFrom(s, EndOfLine(s, Min(opens)))

SubSingleLineComments(s) == SubSingleLineFrom(s, 1)

\* the positions k >= i+2 where a "*/" closes a "/*" opened at i
BlockClosers(s, i) == {k \in (i + 2)..Len(s) : HasAt(s, k, <<"*", "/">>)}

\* re.sub(r'\/\*.*?\*\/', '', content, flags=re.DOTALL), scanning from i:
\* the text up to the next "/*" that has a closer is kept, and the scan goes
\* on after its nearest closer
RECURSIVE SubMultiLineFrom(_, _)
SubMultiLineFrom(s, i) ==
    LET opens == {k \in Occurrences(s, i, <<"/", "*">>) : BlockClosers(s, k) # {}} IN
    IF opens = {} THEN Slice(s, i, Len(s))
    ELSE Slice(s, i, Min(opens) - 1)
         \o SubMultiLineFrom(s, Min(BlockClosers(s, Min(opens))) + 2)

SubMultiLineComments(s) == SubMultiLineFrom(s, 1)

\* \s* is greedy and what follows it is never whitespace: the first position
\* at or after i that holds no whitespace
SkipWhitespace(s, i) ==
    Min({j \in i..(Len(s) + 1) : j = Len(s) + 1 \/ s[j] \notin Whitespace})

IncludeWord == <<"i", "n", "c", "l", "u", "d", "e">>

\* the characters that may open a target: ["<]
Openers == {"\"", "<"}

\* the characters that end a target opened by `open`: the class [">] of
\* include_pattern, whatever the opener was
Closers(open) == {"\"", ">"}

NoMatch == [ok |-> FALSE, target |-> <<>>, end |-> 0]

\* one attempt of #\s*include\s*["<](.+?)[">] at position i: the target
\* ends at the first closer that follows at least one character, all on one
\* line (. does not match "\n")
IncludePatternAt(s, i) ==
    IF ~HasAt(s, i, <<"#">>) THEN NoMatch
    ELSE LET w == SkipWhitespace(s, i + 1) IN
         IF ~HasAt(s, w, IncludeWord) THEN NoMatch
         ELSE LET o == SkipWhitespace(s, w + Len(IncludeWord)) IN
              IF o > Len(s) \/ s[o] \notin Openers THEN NoMatch
              ELSE LET ends == {q \in (o + 2)..Len(s) :
                                   /\ s[q] \in Closers(s[o])
                                   /\ \A p \in (o + 1)..(q - 1) : s[p] # "\n"}
                   IN IF ends = {} THEN NoMatch
                      ELSE [ok |-> TRUE,
                            target |-> Slice(s, o + 1, Min(ends) - 1),
                            end |-> Min(ends)]

\* re.findall(include_pattern, content), scanning from i: the leftmost
\* position where the pattern matches, then on from the end of that match
RECURSIVE FindAllFrom(_, _)
FindAllFrom(s, i) ==
    LET hits == {k \in Occurrences(s, i, <<"#">>) : IncludePatternAt(s, k).ok} IN
    IF hits = {} THEN <<>>
    ELSE LET m == IncludePatternAt(s, Min(hits))
         IN <<m.target>> \o FindAllFrom(s, m.end + 1)

FindAllIncludes(s) == FindAllFrom(s, 1)

\* what open() and read() raise here: an OSError or a decoding error
Faults == {"PermissionError", "UnicodeDecodeError"}

\* fault injection: a handler written `except OSError`, which lets a
\* decoding error through
IsOSError(fault) == fault = "PermissionError"

\* `except Exception`: the exceptions the handler catches (both are
\* subclasses of Exception)
IsException(fault) == fault \in {"PermissionError", "UnicodeDecodeError"}

\* get_includes_from_shader(file_path) as one call: what it returns, whether
\* it prints "Error processing file", and the exception it lets through
GetIncludesFromShader(fault, text) ==
    IF fault = None
    THEN [included_files |->
              FindAllIncludes(SubMultiLineComments(SubSingleLineComments(text))),
          printed |-> FALSE, raised |-> None]
    ELSE IF IsException(fault)
    THEN [included_files |-> <<>>, printed |-> TRUE, raised |-> None]
    ELSE [included_files |-> <<>>, printed |-> FALSE, raised |-> fault]

-----------------------------------------------------------------------------
(* os.path (posixpath) *)

Sep == "/"

\* str.rfind(c) as a 1-based position, 0 when c does not occur
RFind(s, c) == IF \E i \in 1..Len(s) : s[i] = c
               THEN CHOOSE i \in 1..Len(s) : s[i] = c /\ \A j \in (i + 1)..Len(s) : s[j] # c
               ELSE 0

\* str.split(os.path.sep): the pieces between separators, empty ones included
RECURSIVE Split(_)
Split(s) ==
    IF \A i \in 1..Len(s) : s[i] # Sep THEN <<s>>
    ELSE LET k == Min({i \in 1..Len(s) : s[i] = Sep})
         IN <<Slice(s, 1, k - 1)>> \o Split(Slice(s, k + 1, Len(s)))

\* os.path.sep.join(parts)
RECURSIVE SepJoin(_)
SepJoin(parts) ==
    IF parts = <<>> THEN <<>>
    ELSE IF Len(parts) = 1 THEN parts[1]
    ELSE parts[1] \o <<Sep>> \o SepJoin(Tail(parts))

\* [x for x in parts if x]
RECURSIVE NonEmpty(_)
NonEmpty(parts) ==
    IF parts = <<>> THEN <<>>
    ELSE IF Head(parts) = <<>> THEN NonEmpty(Tail(parts))
    ELSE <<Head(parts)>> \o NonEmpty(Tail(parts))

IsAbs(p) == HasAt(p, 1, <<Sep>>)

\* os.path.join(a, b)
PathJoin(a, b) ==
    IF IsAbs(b) THEN b
    ELSE IF a = <<>> \/ a[Len(a)] = Sep THEN a \o b
    ELSE a \o <<Sep>> \o b

DotDot == <<".", ".">>

\* the loop of posixpath.normpath over the components still to be read
RECURSIVE NormComps(_, _, _)
NormComps(comps, new_comps, initial_slashes) ==
    IF comps = <<>> THEN new_comps
    ELSE LET comp == Head(comps) IN
         IF comp = <<>> \/ comp = <<".">>
         THEN NormComps(Tail(comps), new_comps, initial_slashes)
         ELSE IF \/ comp # DotDot
                 \/ (initial_slashes = 0 /\ new_comps = <<>>)
                 \/ (new_comps # <<>> /\ new_comps[Len(new_comps)] = DotDot)
         THEN NormComps(Tail(comps), Append(new_comps, comp), initial_slashes)
         ELSE IF new_comps # <<>>
         THEN NormComps(Tail(comps), SubSeq(new_comps, 1, Len(new_comps) - 1),
                        initial_slashes)
         ELSE NormComps(Tail(comps), new_comps, initial_slashes)

\* os.path.normpath(path)
NormPath(path) ==
    IF path = <<>> THEN <<".">>
    ELSE LET initial_slashes ==
                 IF ~IsAbs(path) THEN 0
                 ELSE IF HasAt(path, 1, <<Sep, Sep>>) /\ ~HasAt(path, 1, <<Sep, Sep, Sep>>)
                      THEN 2 ELSE 1
             joined == SepJoin(NormComps(Split(path), <<>>, initial_slashes))
             out == [i \in 1..initial_slashes |-> Sep] \o joined
         IN IF out = <<>> THEN <<".">> ELSE out

\* os.path.abspath(path) in working directory wd
AbsPath(wd, path) == NormPath(IF IsAbs(path) THEN path ELSE PathJoin(wd, path))

\* len(os.path.commonprefix([a, b])) for two lists of components
CommonLen(a, b) ==
    LET n == IF Len(a) < Len(b) THEN Len(a) ELSE Len(b)
        diff == {i \in 1..n : a[i] # b[i]}
    IN IF diff = {} THEN n ELSE Min(diff) - 1

\* os.path.relpath(path, start) in working directory wd
RelPath(wd, path, start) ==
    LET start_list == NonEmpty(Split(AbsPath(wd, start)))
        path_list == NonEmpty(Split(AbsPath(wd, path)))
        i == CommonLen(start_list, path_list)
        rel_list == [k \in 1..(Len(start_list) - i) |-> DotDot]
                    \o Slice(path_list, i + 1, Len(path_list))
    IN IF rel_list = <<>> THEN <<".">> ELSE SepJoin(rel_list)

\* os.path.basename(p)
BaseName(p) == Slice(p, RFind(p, Sep) + 1, Len(p))

\* str.rstrip('/')
RECURSIVE RStripSep(_)
RStripSep(s) == IF s # <<>> /\ s[Len(s)] = Sep
                THEN RStripSep(SubSeq(s, 1, Len(s) - 1)) ELSE s

\* os.path.dirname(p)
DirName(p) ==
    LET head == Slice(p, 1, RFind(p, Sep))
    IN IF head # <<>> /\ \E i \in 1..Len(head) : head[i] # Sep
       THEN RStripSep(head) ELSE head

\* os.path.splitext(p)[1]: from the last dot of the last component, unless
\* only dots precede it there
SplitExt(p) ==
    LET sepIndex == RFind(p, Sep)
        dotIndex == RFind(p, ".")
    IN IF dotIndex > sepIndex
          /\ \E k \in (sepIndex + 1)..(dotIndex - 1) : p[k] # "."
       THEN Slice(p, dotIndex, Len(p)) ELSE <<>>

\* Path(p).as_posix(): empty and "." components dropped, ".." kept
RECURSIVE DropCurDir(_)
DropCurDir(parts) ==
    IF parts = <<>> THEN <<>>
    ELSE IF Head(parts) = <<>> \/ Head(parts) = <<".">> THEN DropCurDir(Tail(parts))
    ELSE <<Head(parts)>> \o DropCurDir(Tail(parts))

AsPosix(p) ==
    LET body == SepJoin(DropCurDir(Split(p)))
        root == IF ~IsAbs(p) THEN <<>>
                ELSE IF HasAt(p, 1, <<Sep, Sep>>) /\ ~HasAt(p, 1, <<Sep, Sep, Sep>>)
                     THEN <<Sep, Sep>> ELSE <<Sep>>
        out == root \o body
    IN IF out = <<>> THEN <<".">> ELSE out

\* part.startswith(".")
StartsWithDot(part) == HasAt(part, 1, <<".">>)

\* any(part.startswith(".") for part in directory.split(os.path.sep))
HasDotPart(dir) == \E k \in 1..Len(Split(dir)) : StartsWithDot(Split(dir)[k])

-----------------------------------------------------------------------------
(* difflib.SequenceMatcher(None, a, b).ratio() *)

\* autojunk (on by default): b must have at least this many elements
AutojunkMinLen == 200

Count(s, c) == Cardinality({i \in 1..Len(s) : s[i] = c})

\* __chain_b: the "popular" elements of b, which are left out of b2j
Popular(b) ==
    IF Len(b) >= AutojunkMinLen
    THEN {c \in Range(b) : Count(b, c) > (Len(b) \div 100) + 1}
    ELSE {}

\* the length of the longest block a[i..] = b[j..] inside a[..ahi-1], b[..bhi-1]
\* made of elements of b2j only (the j2len chain of find_longest_match): the
\* first offset at which the block cannot go on
RunLen(a, b, pop, i, j, ahi, bhi) ==
    Min({t \in 0..(ahi - i) :
            \/ i + t >= ahi
            \/ j + t >= bhi
            \/ a[i + t] # b[j + t]
            \/ b[j + t] \in pop})

\* while besti > alo and bestj > blo and a[besti-1] == b[bestj-1]: grow left
\* (t is the number of elements gained)
ExtendLeft(a, b, m, alo, blo) ==
    LET t == Min({u \in 0..(m.i - alo) :
                     \/ m.i - u <= alo
                     \/ m.j - u <= blo
                     \/ a[m.i - u - 1] # b[m.j - u - 1]})
    IN [i |-> m.i - t, j |-> m.j - t, k |-> m.k + t]

\* while besti+bestsize < ahi and bestj+bestsize < bhi and equal: grow right
ExtendRight(a, b, m, ahi, bhi) ==
    LET t == Min({u \in 0..(ahi - m.i - m.k) :
                     \/ m.i + m.k + u >= ahi
                     \/ m.j + m.k + u >= bhi
                     \/ a[m.i + m.k + u] # b[m.j + m.k + u]})
    IN [m EXCEPT !.k = m.k + t]

\* find_longest_match(alo, ahi, blo, bhi) over a[alo..ahi-1], b[blo..bhi-1]:
\* the longest block, of those the one starting earliest in a, of those the
\* one starting earliest in b; then extended over equal neighbours (no
\* element is junk, since isjunk is None)
FindLongestMatch(a, b, alo, ahi, blo, bhi) ==
    LET pop == Popular(b)
        starts == {ij \in (alo..(ahi - 1)) \X (blo..(bhi - 1)) :
                      a[ij[1]] = b[ij[2]] /\ b[ij[2]] \notin pop}
        len == [ij \in starts |-> RunLen(a, b, pop, ij[1], ij[2], ahi, bhi)]
        bestsize == Max({len[ij] : ij \in starts})
        longest == {ij \in starts : len[ij] = bestsize}
        besti == Min({ij[1] : ij \in longest})
        bestj == Min({ij[2] : ij \in {x \in longest : x[1] = besti}})
        best == IF starts = {} THEN [i |-> alo, j |-> blo, k |-> 0]
                ELSE [i |-> besti, j |-> bestj, k |-> bestsize]
    IN ExtendRight(a, b, ExtendLeft(a, b, best, alo, blo), ahi, bhi)

\* get_matching_blocks: the total size of the blocks found in a[alo..ahi-1],
\* b[blo..bhi-1], by the longest match and then, recursively, left and right
RECURSIVE MatchedSize(_, _, _, _, _, _)
MatchedSize(a, b, alo, ahi, blo, bhi) ==
    LET m == FindLongestMatch(a, b, alo, ahi, blo, bhi) IN
    IF m.k = 0 THEN 0
    ELSE m.k
         + (IF alo < m.i /\ blo < m.j
            THEN MatchedSize(a, b, alo, m.i, blo, m.j) ELSE 0)
         + (IF m.i + m.k < ahi /\ m.j + m.k < bhi
            THEN MatchedSize(a, b, m.i + m.k, ahi, m.j + m.k, bhi) ELSE 0)

\* ratio(): 2.0 * matches / (len(a) + len(b)) as the fraction num/den
Ratio(a, b) ==
    IF Len(a) + Len(b) = 0 THEN [num |-> 1, den |-> 1]
    ELSE [num |-> 2 * MatchedSize(a, b, 1, Len(a) + 1, 1, Len(b) + 1),
          den |-> Len(a) + Len(b)]

\* x > y for two ratios
RatioGreater(x, y) == x.num * y.den > y.num * x.den

ZeroRatio == [num |-> 0, den |-> 1]

-----------------------------------------------------------------------------
(* find_similar_include *)

\* similarity_ratio > max_similarity
Better(similarity_ratio, max) == RatioGreater(similarity_ratio, max)

\* fault injection: the loop body without the base-name test
SimilarStepAnyName(orig, st, file) ==
    IF RatioGreater(Ratio(orig, file), st.max_similarity)
    THEN [max_similarity |-> Ratio(orig, file), suggested_include |-> file]
    ELSE st

\* one iteration of `for file in all_files` on the locals st
SimilarStep(orig, st, file) ==
    IF BaseName(orig) = BaseName(file)
    THEN LET similarity_ratio == Ratio(orig, file) IN
         IF Better(similarity_ratio, st.max_similarity)
         THEN [max_similarity |-> similarity_ratio, suggested_include |-> file]
         ELSE st
    ELSE st

RECURSIVE SimilarLoop(_, _, _)
SimilarLoop(orig, st, rest) ==
    IF rest = <<>> THEN st
    ELSE SimilarLoop(orig, SimilarStep(orig, st, Head(rest)), Tail(rest))

\* find_similar_include(original_include, all_files)
FindSimilarInclude(orig, inventory) ==
    SimilarLoop(orig, [max_similarity |-> ZeroRatio, suggested_include |-> NoPath],
                inventory).suggested_include

-----------------------------------------------------------------------------
(* The extractor alone: get_includes_from_shader on one file, statement by *)
(* statement.  The file's text is a concatenation of a few pieces.         *)

MaxChunks == 4

IncludeHead == <<"#">> \o IncludeWord \o <<" ">>

TextChunks ==
    { <<"/", "/">>,
      <<"/", "*">>,
      <<"*", "/">>,
      <<"\n">>,
      IncludeHead \o <<"\"", "a", "\"">>,
      IncludeHead \o <<"<", "b", ">">>,
      IncludeHead \o <<"\"", "c", ">", "d", "\"">>,
      IncludeHead \o <<"<", "c", "\"">> }

Texts == {Flatten(cs) : cs \in UNION {[1..n -> TextChunks] : n \in 0..MaxChunks}}

\* the file_path argument of the call
ExtractedFile == <<"t", ".", "h">>

idleCrawl ==
    /\ cwd = <<>> /\ crawl_path = <<>> /\ fs = {} /\ walk = <<>> /\ files = {}
    /\ directory = <<>> /\ all_includes = <<>> /\ errors = <<>> /\ verified = 0
    /\ report = <<>>

idleSimilar ==
    /\ original_include = <<>> /\ max_similarity = ZeroRatio
    /\ suggested_include = NoPath /\ to_compare = <<>>

idleExtract ==
    /\ file_text = <<>> /\ file_fault = None /\ content = <<>>
    /\ included_files = <<>>

InitExtract ==
    /\ pc = "open"
    /\ file_text \in Texts
    /\ file_fault \in {None} \cup Faults
    /\ content = <<>>
    /\ included_files = <<>>
    /\ all_files = <<>>
    /\ idleCrawl
    /\ idleSimilar

\* with open(file_path, 'r') as file: content = file.read()
ReadFile ==
    /\ pc = "open"
    /\ file_fault = None
    /\ content' = file_text
    /\ pc' = "sub_single"
    /\ UNCHANGED <<file_text, file_fault, included_files, all_files, crawlVars, similarVars>>

\* open() or read() raises: except Exception prints, included_files stays []
ReadFails ==
    /\ pc = "open"
    /\ file_fault # None
    /\ IsException(file_fault)
    /\ errors' = Append(errors, ExtractedFile)
    /\ pc' = "return"
    /\ UNCHANGED <<extractVars, all_files, similarVars, cwd, crawl_path, fs, walk, files,
                   directory, all_includes, verified, report>>

\* content = re.sub(single_line_comment_pattern, '', content, flags=re.MULTILINE)
SubSingleLine ==
    /\ pc = "sub_single"
    /\ content' = SubSingleLineComments(content)
    /\ pc' = "sub_multi"
    /\ UNCHANGED <<file_text, file_fault, included_files, all_files, crawlVars, similarVars>>

\* content = re.sub(multi_line_comment_pattern, '', content, flags=re.DOTALL)
SubMultiLine ==
    /\ pc = "sub_multi"
    /\ content' = SubMultiLineComments(content)
    /\ pc' = "findall"
    /\ UNCHANGED <<file_text, file_fault, included_files, all_files, crawlVars, similarVars>>

\* matches = re.findall(include_pattern, content); append each; return
FindAll ==
    /\ pc = "findall"
    /\ included_files' = included_files \o FindAllIncludes(content)
    /\ pc' = "return"
    /\ UNCHANGED <<file_text, file_fault, content, all_files, crawlVars, similarVars>>

NextExtract == ReadFile \/ ReadFails \/ SubSingleLine \/ SubMultiLine \/ FindAll

SpecExtract == InitExtract /\ [][NextExtract]_vars

-----------------------------------------------------------------------------
(* find_similar_include alone, one loop iteration at a time *)

MaxInventory == 3

\* a file name long enough for autojunk to apply
LongName == [i \in 1..AutojunkMinLen |-> "a"]

P_f_h == <<"f", ".", "h">>

SimilarMissing == { <<"a", Sep>> \o P_f_h, <<"x", Sep>> \o LongName }

SimilarInventory ==
    { P_f_h,
      <<"b", Sep>> \o P_f_h,
      <<"c", Sep>> \o P_f_h,
      <<"a", "b", Sep>> \o P_f_h,
      <<"a", Sep, "g", ".", "h">>,
      LongName }

\* the inventories: lists of distinct paths
Inventories ==
    {inv \in UNION {[1..n -> SimilarInventory] : n \in 0..MaxInventory} :
        \A i, j \in 1..Len(inv) : i # j => inv[i] # inv[j]}

InitSimilar ==
    /\ pc = "loop"
    /\ original_include \in SimilarMissing
    /\ all_files \in Inventories
    /\ to_compare = all_files
    /\ max_similarity = ZeroRatio
    /\ suggested_include = NoPath
    /\ idleCrawl
    /\ idleExtract

\* the body of `for file in all_files`
CompareNext ==
    /\ pc = "loop"
    /\ to_compare # <<>>
    /\ LET st == SimilarStep(original_include,
                             [max_similarity |-> max_similarity,
                              suggested_include |-> suggested_include],
                             Head(to_compare))
       IN /\ max_similarity' = st.max_similarity
          /\ suggested_include' = st.suggested_include
    /\ to_compare' = Tail(to_compare)
    /\ UNCHANGED <<pc, original_include, all_files, extractVars, crawlVars>>

\* return suggested_include
ReturnSuggestion ==
    /\ pc = "loop"
    /\ to_compare = <<>>
    /\ pc' = "returned"
    /\ UNCHANGED <<all_files, similarVars, extractVars, crawlVars>>

NextSimilar == CompareNext \/ ReturnSuggestion

SpecSimilar == InitSimilar /\ [][NextSimilar]_vars

-----------------------------------------------------------------------------
(* crawl_and_verify *)

MaxIncludes == 2

N_shaders == <<"s", "h", "a", "d", "e", "r", "s">>
N_lib == <<"l", "i", "b">>
N_git == <<".", "g", "i", "t">>
N_sub == <<"s", "u", "b">>
N_a_glsl == <<"a", ".", "g", "l", "s", "l">>
N_common_h == <<"c", "o", "m", "m", "o", "n", ".", "h">>
N_commom_h == <<"c", "o", "m", "m", "o", "m", ".", "h">>
N_notes_txt == <<"n", "o", "t", "e", "s", ".", "t", "x", "t">>

source_code_extensions ==
    { <<".", "g", "l", "s", "l">>, <<".", "s", "l", "a", "n", "g">>, <<".", "h">>,
      <<".", "i", "n", "c">>, <<".", "p", "a", "r", "a", "m", "s">>,
      <<".", "h", "l", "s", "l">> }

\* the directories under the scan root, each named by its components, and
\* the subdirectories os.walk finds in each
SubDirs(node) ==
    IF node = <<>> THEN <<N_shaders, N_lib, N_git>>
    ELSE IF node = <<N_git>> THEN <<N_sub>>
    ELSE <<>>

\* a line `#include "target"`
IncludeLine(target) == IncludeHead \o <<"\"">> \o target \o <<"\"", "\n">>

\* the targets shaders/a.glsl may include
Targets ==
    { N_common_h,
      <<".", Sep, "x", Sep, ".", ".", Sep>> \o N_common_h,
      <<".", ".", Sep>> \o N_lib \o <<Sep>> \o N_common_h }

IncludeLists == UNION {[1..n -> Targets] : n \in 0..MaxIncludes}

File(dir, name, text, fault) ==
    [dir |-> dir, name |-> name, text |-> text, fault |-> fault]

F_a_glsl(incs, fault) ==
    File(<<N_shaders>>, N_a_glsl, Flatten([i \in 1..Len(incs) |-> IncludeLine(incs[i])]),
         fault)
F_notes == File(<<>>, N_notes_txt, <<"/", "/", " ", "n", "\n">>, None)

OptionalFiles ==
    { File(<<N_shaders>>, N_common_h, <<>>, None),
      File(<<N_lib>>, N_commom_h, IncludeLine(N_common_h), None),
      File(<<N_lib>>, N_common_h, <<>>, None),
      File(<<N_git, N_sub>>, N_common_h, IncludeLine(<<"z", ".", "h">>), None) }

FileSystems ==
    { {F_a_glsl(incs, fault), F_notes} \cup opt :
        incs \in IncludeLists, fault \in {None} \cup Faults, opt \in SUBSET OptionalFiles }

\* the scan root is the directory /w/r; how the argument spells it, and the
\* working directory it is spelled in
RootSpellings ==
    { << <<Sep, "w">>, <<"r">> >>,
      << <<Sep, "w">>, <<Sep, "w", Sep, "r">> >>,
      << <<Sep, "w", Sep, "r">>, <<".">> >> }

Init ==
    /\ pc = "walk"
    /\ \E spelling \in RootSpellings :
          /\ cwd = spelling[1]
          /\ crawl_path = spelling[2]
    /\ fs \in FileSystems
    /\ walk = << [path |-> crawl_path, node |-> <<>>] >>
    /\ files = {}
    /\ directory = <<>>
    /\ all_files = <<>>
    /\ all_includes = <<>>
    /\ errors = <<>>
    /\ verified = 0
    /\ report = <<>>
    /\ idleExtract
    /\ idleSimilar

\* fault injection: only the last component of the directory is tested
SkipsDirectoryByLastPart(dir) == StartsWithDot(BaseName(dir))

\* parts = directory.split(os.path.sep); any(part.startswith(".") ...)
SkipsDirectory(dir) == HasDotPart(dir)

\* os.walk, top-down: the subdirectories of the directory just yielded come
\* next, each as os.path.join(top, dirname)
WalkPush(top) ==
    [i \in 1..Len(SubDirs(top.node)) |->
        [path |-> PathJoin(top.path, SubDirs(top.node)[i]),
         node |-> Append(top.node, SubDirs(top.node)[i])]]

\* for directory, _, files in os.walk(crawl_path): ... continue
WalkSkipDirectory ==
    /\ pc = "walk"
    /\ files = {}
    /\ walk # <<>>
    /\ SkipsDirectory(Head(walk).path)
    /\ directory' = Head(walk).path
    /\ walk' = WalkPush(Head(walk)) \o Tail(walk)
    /\ UNCHANGED <<pc, files, all_files, all_includes, errors, verified, report, cwd,
                   crawl_path, fs, extractVars, similarVars>>

\* for directory, _, files in os.walk(crawl_path): a directory that is kept
WalkEnterDirectory ==
    /\ pc = "walk"
    /\ files = {}
    /\ walk # <<>>
    /\ ~SkipsDirectory(Head(walk).path)
    /\ directory' = Head(walk).path
    /\ files' = {f \in fs : f.dir = Head(walk).node}
    /\ walk' = WalkPush(Head(walk)) \o Tail(walk)
    /\ UNCHANGED <<pc, all_files, all_includes, errors, verified, report, cwd,
                   crawl_path, fs, extractVars, similarVars>>

\* file_path = os.path.relpath(os.path.normpath(os.path.join(directory, file)),
\*                             crawl_path)
FilePath(wd, root, dir, file) == RelPath(wd, NormPath(PathJoin(dir, file)), root)

\* fault injection: the include is joined against the scan root instead of
\* the including file's directory
ResolveIncludeAgainstRoot(wd, root, dir, include) ==
    RelPath(wd, NormPath(PathJoin(root, include)), root)

\* os.path.relpath(os.path.normpath(os.path.join(directory, include)), crawl_path)
ResolveInclude(wd, root, dir, include) ==
    RelPath(wd, NormPath(PathJoin(dir, include)), root)

\* all_includes[file_path] = value, on a dict kept in insertion order
DictSet(dict, key, value) ==
    IF \E i \in 1..Len(dict) : dict[i].file_path = key
    THEN [i \in 1..Len(dict) |->
             IF dict[i].file_path = key THEN [dict[i] EXCEPT !.includes = value]
             ELSE dict[i]]
    ELSE Append(dict, [file_path |-> key, includes |-> value])

\* a file whose extension is not a source extension: inventoried only
InventoryFile ==
    /\ pc = "walk"
    /\ \E f \in files :
        /\ SplitExt(f.name) \notin source_code_extensions
        /\ all_files' = Append(all_files, FilePath(cwd, crawl_path, directory, f.name))
        /\ files' = files \ {f}
    /\ UNCHANGED <<pc, walk, directory, all_includes, errors, verified, report, cwd,
                   crawl_path, fs, extractVars, similarVars>>

\* a source file that is read: inventoried, and its includes resolved
ScanFile ==
    /\ pc = "walk"
    /\ \E f \in files :
        /\ SplitExt(f.name) \in source_code_extensions
        /\ f.fault = None
        /\ LET file_path == FilePath(cwd, crawl_path, directory, f.name)
               includes == GetIncludesFromShader(f.fault, f.text).included_files
           IN /\ all_files' = Append(all_files, file_path)
              /\ all_includes' =
                    DictSet(all_includes, file_path,
                            [i \in 1..Len(includes) |->
                                ResolveInclude(cwd, crawl_path, directory, includes[i])])
        /\ files' = files \ {f}
    /\ UNCHANGED <<pc, walk, directory, errors, verified, report, cwd, crawl_path, fs,
                   extractVars, similarVars>>

\* a source file whose read raises: get_includes_from_shader prints and
\* returns [], or lets the exception through, which ends crawl_and_verify
ScanFileFails ==
    /\ pc = "walk"
    /\ \E f \in files :
        /\ SplitExt(f.name) \in source_code_extensions
        /\ f.fault # None
        /\ LET file_path == FilePath(cwd, crawl_path, directory, f.name)
               got == GetIncludesFromShader(f.fault, f.text)
           IN /\ all_files' = Append(all_files, file_path)
              /\ IF got.raised # None
                 THEN /\ pc' = "aborted"
                      /\ UNCHANGED <<all_includes, errors>>
                 ELSE /\ pc' = pc
                      /\ errors' = IF got.printed
                                   THEN Append(errors, PathJoin(directory, f.name))
                                   ELSE errors
                      /\ all_includes' =
                            DictSet(all_includes, file_path,
                                    [i \in 1..Len(got.included_files) |->
                                        ResolveInclude(cwd, crawl_path, directory,
                                                       got.included_files[i])])
        /\ files' = files \ {f}
    /\ UNCHANGED <<walk, directory, verified, report, cwd, crawl_path, fs,
                   extractVars, similarVars>>

\* os.walk is exhausted: the second pass starts
EndWalk ==
    /\ pc = "walk"
    /\ files = {}
    /\ walk = <<>>
    /\ pc' = "verify"
    /\ UNCHANGED <<walk, files, directory, all_files, all_includes, errors, verified,
                   report, cwd, crawl_path, fs, extractVars, similarVars>>

\* x not in all_files
InInventory(x, inventory) == \E i \in 1..Len(inventory) : inventory[i] = x

\* fault injection: a missing path is listed once, however often it occurs
RECURSIVE MissingOnce(_, _, _)
MissingOnce(includes, inventory, seen) ==
    IF includes = <<>> THEN <<>>
    ELSE IF Head(includes) \in seen
            \/ \E i \in 1..Len(inventory) : inventory[i] = Head(includes)
    THEN MissingOnce(Tail(includes), inventory, seen)
    ELSE <<Head(includes)>>
         \o MissingOnce(Tail(includes), inventory, seen \cup {Head(includes)})

MissingIncludesMerged(includes, inventory) == MissingOnce(includes, inventory, {})

\* missing_includes = [x for x in includes if x not in all_files]
MissingIncludes(includes, inventory) ==
    SelectSeq(includes, LAMBDA x : ~InInventory(x, inventory))

\* print("\t\tNo suggestions found.")
NoSuggestion == <<"No suggestions found.">>

\* the suggestion line printed under one missing include of file_path
Suggestion(wd, file_path, missing_include, inventory) ==
    LET suggested == FindSimilarInclude(missing_include, inventory)
    IN IF suggested # NoPath /\ suggested # <<>>
       THEN AsPosix(RelPath(wd, suggested, DirName(file_path)))
       ELSE NoSuggestion

\* for file_path, includes in all_includes.items(): nothing is missing
VerifyClean ==
    /\ pc = "verify"
    /\ verified < Len(all_includes)
    /\ MissingIncludes(all_includes[verified + 1].includes, all_files) = <<>>
    /\ verified' = verified + 1
    /\ UNCHANGED <<pc, walk, files, directory, all_files, all_includes, errors, report,
                   cwd, crawl_path, fs, extractVars, similarVars>>

\* for file_path, includes in all_includes.items(): the header line, then
\* each missing include with its suggestion
VerifyMissing ==
    /\ pc = "verify"
    /\ verified < Len(all_includes)
    /\ LET entry == all_includes[verified + 1]
           missing_includes == MissingIncludes(entry.includes, all_files)
       IN /\ missing_includes # <<>>
          /\ report' = Append(report,
                [file_path |-> entry.file_path,
                 lines |-> [i \in 1..Len(missing_includes) |->
                    [missing |-> missing_includes[i],
                     suggestion |-> Suggestion(cwd, entry.file_path,
                                               missing_includes[i], all_files)]]])
    /\ verified' = verified + 1
    /\ UNCHANGED <<pc, walk, files, directory, all_files, all_includes, errors, cwd,
                   crawl_path, fs, extractVars, similarVars>>

\* crawl_and_verify returns
Finish ==
    /\ pc = "verify"
    /\ verified = Len(all_includes)
    /\ pc' = "done"
    /\ UNCHANGED <<walk, files, directory, all_files, all_includes, errors, verified,
                   report, cwd, crawl_path, fs, extractVars, similarVars>>

Next ==
    \/ WalkSkipDirectory
    \/ WalkEnterDirectory
    \/ InventoryFile
    \/ ScanFile
    \/ ScanFileFails
    \/ EndWalk
    \/ VerifyClean
    \/ VerifyMissing
    \/ Finish

Spec == Init /\ [][Next]_vars

-----------------------------------------------------------------------------
(* Properties of the extractor (SpecExtract) *)

\* the comments of a text as a C lexer delimits them, scanning from i outside
\* any comment: "//" to the end of its line, "/*" to the nearest "*/" after
\* it; the set of the positions they cover
RECURSIVE CommentPositions(_, _)
CommentPositions(s, i) ==
    LET lineOpens == Occurrences(s, i, <<"/", "/">>)
        blockOpens == {k \in Occurrences(s, i, <<"/", "*">>) :
                          \E c \in (k + 2)..Len(s) : HasAt(s, c, <<"*", "/">>)}
        opens == lineOpens \cup blockOpens
    IN IF opens = {} THEN {}
       ELSE LET o == Min(opens)
                last == IF o \in lineOpens
                        THEN Min({j \in o..(Len(s) + 1) :
                                     j = Len(s) + 1 \/ s[j] = "\n"}) - 1
                        ELSE Min({c \in (o + 2)..Len(s) :
                                     HasAt(s, c, <<"*", "/">>)}) + 1
            IN (o..last) \cup CommentPositions(s, last + 1)

\* a target opened by a quote ends at a quote, one opened by < ends at >
MatchingCloser(open) == IF open = "\"" THEN {"\""} ELSE {">"}

\* a directive at position i whose delimiters are of the same kind: #, the
\* word include, an opener, a target on one line, the closer of that opener
DirectiveAt(s, i) ==
    IF ~HasAt(s, i, <<"#">>) THEN NoMatch
    ELSE LET w == SkipWhitespace(s, i + 1) IN
         IF ~HasAt(s, w, IncludeWord) THEN NoMatch
         ELSE LET o == SkipWhitespace(s, w + Len(IncludeWord)) IN
              IF o > Len(s) \/ s[o] \notin {"\"", "<"} THEN NoMatch
              ELSE LET ends == {q \in (o + 2)..Len(s) :
                                   /\ s[q] \in MatchingCloser(s[o])
                                   /\ \A p \in (o + 1)..(q - 1) : s[p] # "\n"}
                   IN IF ends = {} THEN NoMatch
                      ELSE [ok |-> TRUE,
                            target |-> Slice(s, o + 1, Min(ends) - 1),
                            end |-> Min(ends)]

\* the include directives of a text, each with delimiters of the same kind
Directives(s) ==
    {[start |-> i,
      end |-> DirectiveAt(s, i).end,
      target |-> DirectiveAt(s, i).target] :
        i \in {k \in 1..Len(s) : DirectiveAt(s, k).ok}}

InComment(s, d) == \A p \in (d.start)..(d.end) : p \in CommentPositions(s, 1)
OutsideComments(s, d) == \A p \in (d.start)..(d.end) : p \notin CommentPositions(s, 1)

\* a directive whose target holds no delimiter character
PlainTarget(d) == \A k \in 1..Len(d.target) : d.target[k] \notin {"\"", "<", ">"}

\* C1: no target returned is the target of a directive inside a comment: a
\* target that a commented directive names is returned at most as often as
\* directives outside that comment name it
C1_CommentedIncludeNeverReturned ==
    (pc = "return" /\ file_fault = None) =>
        \A d \in Directives(file_text) :
            InComment(file_text, d) =>
                Count(included_files, d.target)
                    <= Cardinality({e \in Directives(file_text) :
                                       /\ e.target = d.target
                                       /\ ~InComment(file_text, e)})

\* re.findall with delimiters that must match, scanning from i
RECURSIVE MatchingFindAll(_, _)
MatchingFindAll(s, i) ==
    LET hits == {k \in Occurrences(s, i, <<"#">>) : DirectiveAt(s, k).ok} IN
    IF hits = {} THEN <<>>
    ELSE LET m == DirectiveAt(s, Min(hits))
         IN <<m.target>> \o MatchingFindAll(s, m.end + 1)

\* C9: the targets returned are the texts between an opening delimiter and
\* the closing delimiter of the same kind, in the text left after comment
\* stripping; a directive with mismatched delimiters yields nothing
C9_TargetsHaveMatchingDelimiters ==
    (pc = "return" /\ file_fault = None) =>
        included_files = MatchingFindAll(content, 1)

\* the directives outside all comments, by position, as a list of targets
RECURSIVE TargetsInOrder(_)
TargetsInOrder(ds) ==
    IF ds = {} THEN <<>>
    ELSE LET first == CHOOSE d \in ds : \A e \in ds : d.start <= e.start
         IN <<first.target>> \o TargetsInOrder(ds \ {first})

RECURSIVE IsSubsequence(_, _)
IsSubsequence(xs, ys) ==
    IF xs = <<>> THEN TRUE
    ELSE IF ys = <<>> THEN FALSE
    ELSE IF Head(xs) = Head(ys) THEN IsSubsequence(Tail(xs), Tail(ys))
    ELSE IsSubsequence(xs, Tail(ys))

\* C10: every well-formed directive outside all comments is returned, once
\* per occurrence and in order of appearance
C10_UncommentedIncludesAllReturned ==
    (pc = "return" /\ file_fault = None) =>
        IsSubsequence(
            TargetsInOrder({d \in Directives(file_text) :
                               OutsideComments(file_text, d) /\ PlainTarget(d)}),
            included_files)

-----------------------------------------------------------------------------
(* Properties of find_similar_include (SpecSimilar) *)

\* C6: None is returned exactly when no inventory entry has the base name of
\* the missing include; otherwise the entry returned has that base name and
\* the highest ratio among such entries, and is the first of those with it
C6_SuggestionIsBestCandidate ==
    pc = "returned" =>
        LET cands == {i \in 1..Len(all_files) :
                         BaseName(all_files[i]) = BaseName(original_include)}
            score(i) == Ratio(original_include, all_files[i])
        IN /\ (suggested_include = NoPath) <=> (cands = {})
           /\ cands # {} =>
                 \E i \in cands :
                     /\ all_files[i] = suggested_include
                     /\ \A j \in cands :
                           /\ ~RatioGreater(score(j), score(i))
                           /\ (j < i => RatioGreater(score(i), score(j)))

-----------------------------------------------------------------------------
(* Properties of crawl_and_verify (Spec) *)

\* the path of a file of the tree relative to the scan root
TruePath(f) == SepJoin(Append(f.dir, f.name))

\* the file lies in a directory whose name starts with ".", at some depth
InHiddenDir(f) == \E k \in 1..Len(f.dir) : f.dir[k][1] = "."

Inventory == {all_files[i] : i \in 1..Len(all_files)}

ScannedPaths == {all_includes[i].file_path : i \in 1..Len(all_includes)}

ReportedPaths == {report[i].file_path : i \in 1..Len(report)}

\* the missing paths printed under file_path
PrintedUnder(file_path) ==
    IF file_path \in ReportedPaths
    THEN LET e == report[CHOOSE i \in 1..Len(report) : report[i].file_path = file_path]
         IN [j \in 1..Len(e.lines) |-> e.lines[j].missing]
    ELSE <<>>

\* where a relative path leads from the directory `stack`, component by
\* component: "." stays, ".." goes up, a name goes down
RECURSIVE LeadsTo(_, _)
LeadsTo(stack, comps) ==
    IF comps = <<>> THEN stack
    ELSE IF Head(comps) = <<>> \/ Head(comps) = <<".">> THEN LeadsTo(stack, Tail(comps))
    ELSE IF Head(comps) = <<".", ".">>
         THEN IF stack = <<>> THEN << <<".", ".">> >>
              ELSE LeadsTo(SubSeq(stack, 1, Len(stack) - 1), Tail(comps))
    ELSE LeadsTo(Append(stack, Head(comps)), Tail(comps))

\* C2: after pass 1 every file that is in no hidden directory is in the
\* inventory under its root-relative path, however the root is spelled
C2_InventoryComplete ==
    pc \in {"verify", "done"} =>
        \A f \in fs : ~InHiddenDir(f) => TruePath(f) \in Inventory

\* the targets of xs that are not in the set inv, in order, with repetitions
RECURSIVE NotIn(_, _)
NotIn(xs, inv) ==
    IF xs = <<>> THEN <<>>
    ELSE IF Head(xs) \in inv THEN NotIn(Tail(xs), inv)
    ELSE <<Head(xs)>> \o NotIn(Tail(xs), inv)

\* C3: under every verified file the missing paths printed are exactly its
\* resolved targets that are not in the inventory, in order, one per occurrence
C3_MissingExactlyUnresolved ==
    \A k \in 1..verified :
        /\ PrintedUnder(all_includes[k].file_path)
              = NotIn(all_includes[k].includes, Inventory)
        /\ Cardinality({i \in 1..Len(report) :
                           report[i].file_path = all_includes[k].file_path}) <= 1

C3_Witness ==
    /\ pc = "done"
    /\ \E k \in 1..Len(all_includes) :
          /\ Len(all_includes[k].includes) = 2
          /\ all_includes[k].includes[1] = all_includes[k].includes[2]
          /\ Len(PrintedUnder(all_includes[k].file_path)) = 2
    /\ \E k \in 1..Len(all_includes) :
          /\ all_includes[k].includes # <<>>
          /\ PrintedUnder(all_includes[k].file_path) = <<>>

\* the targets the text of a file of the tree includes
RawIncludes(f) == GetIncludesFromShader(None, f.text).included_files

\* C4: the k-th target of a scanned file F that leads, lexically, from F's
\* directory to an inventoried file G is resolved to the string G is stored
\* under, and is not printed as missing under F
C4_ResolutionMirrorsInventory ==
    \A k \in 1..Len(all_includes) :
        \A f \in {x \in fs : TruePath(x) = all_includes[k].file_path /\ x.fault = None} :
            LET raw == RawIncludes(f)
                resolved == all_includes[k].includes
                printed == PrintedUnder(all_includes[k].file_path)
            IN /\ Len(resolved) = Len(raw)
               /\ \A i \in 1..Len(raw) :
                     LET target == LeadsTo(f.dir, Split(raw[i])) IN
                     \A g \in {x \in fs : TruePath(x) \in Inventory
                                          /\ Append(x.dir, x.name) = target} :
                         /\ resolved[i] = TruePath(g)
                         /\ resolved[i] \in Inventory
                         /\ \A j \in 1..Len(printed) : printed[j] # TruePath(g)

C4_Witness ==
    /\ pc = "done"
    /\ \E f \in fs :
          /\ f.name = N_a_glsl
          /\ TruePath(f) \in ScannedPaths
          /\ TruePath(f) \notin ReportedPaths
          /\ Len(RawIncludes(f)) = 2
          /\ RawIncludes(f)[1] = <<".", Sep, "x", Sep, ".", ".", Sep>> \o N_common_h
          /\ RawIncludes(f)[2] = <<".", ".", Sep>> \o N_lib \o <<Sep>> \o N_common_h

\* the directory of a reported file, as components
DirOf(file_path) == LET parts == Split(file_path) IN SubSeq(parts, 1, Len(parts) - 1)

\* C5: a file inside a hidden directory, at any depth, is never in the
\* inventory, never scanned, never an including file of the report and never
\* what a suggestion leads to
C5_HiddenNeverInventoried ==
    \A f \in fs :
        InHiddenDir(f) =>
            /\ TruePath(f) \notin Inventory
            /\ TruePath(f) \notin ScannedPaths
            /\ TruePath(f) \notin ReportedPaths
            /\ \A i \in 1..Len(report) :
                  \A j \in 1..Len(report[i].lines) :
                      report[i].lines[j].suggestion # NoSuggestion =>
                          LeadsTo(DirOf(report[i].file_path),
                                  Split(report[i].lines[j].suggestion))
                              # Append(f.dir, f.name)

C5_Witness ==
    /\ pc = "done"
    /\ \E f \in fs : InHiddenDir(f) /\ f.name = N_common_h
    /\ \E i \in 1..Len(report) :
          \E j \in 1..Len(report[i].lines) :
              /\ BaseName(report[i].lines[j].missing) = N_common_h
              /\ report[i].lines[j].suggestion # NoSuggestion

\* the scenario of C7: shaders/a.glsl holds #include "common.h", no file is
\* named common.h, and lib/commom.h exists
C7_Scenario ==
    /\ \E f \in fs : /\ f.dir = <<N_shaders>> /\ f.name = N_a_glsl
                     /\ f.text = IncludeLine(N_common_h) /\ f.fault = None
    /\ \A f \in fs : f.name # N_common_h
    /\ \E f \in fs : f.dir = <<N_lib>> /\ f.name = N_commom_h

P_shaders_a_glsl == N_shaders \o <<Sep>> \o N_a_glsl
P_shaders_common_h == N_shaders \o <<Sep>> \o N_common_h
P_up_lib_commom_h == <<".", ".", Sep>> \o N_lib \o <<Sep>> \o N_commom_h

RECURSIVE WalkPath(_, _)
WalkPath(top, dir) ==
    IF dir = <<>> THEN top ELSE WalkPath(PathJoin(top, Head(dir)), Tail(dir))

\* C8: a read that fails never ends the run; the file stays in the inventory
\* with an empty include list, its path is printed, nothing is printed under
\* it, and every other file the walk reaches is inventoried, scanned and
\* verified from its own text alone
C8_ReadFailureIsNotFatal ==
    /\ pc # "aborted"
    /\ \A f \in fs :
          (f.fault # None /\ TruePath(f) \in Inventory) =>
              /\ \E k \in 1..Len(all_includes) :
                    /\ all_includes[k].file_path = TruePath(f)
                    /\ all_includes[k].includes = <<>>
              /\ \E e \in 1..Len(errors) :
                    AbsPath(cwd, errors[e])
                        = AbsPath(cwd, PathJoin(crawl_path, TruePath(f)))
              /\ TruePath(f) \notin ReportedPaths
    /\ pc = "done" =>
          \A g \in fs :
              ~HasDotPart(WalkPath(crawl_path, g.dir)) =>
                  /\ TruePath(g) \in Inventory
                  /\ (SplitExt(g.name) \in source_code_extensions /\ g.fault = None) =>
                        /\ \E k \in 1..Len(all_includes) :
                              /\ all_includes[k].file_path = TruePath(g)
                              /\ Len(all_includes[k].includes) = Len(RawIncludes(g))
                              /\ (TruePath(g) \in ReportedPaths)
                                    <=> (\E i \in 1..Len(all_includes[k].includes) :
                                            all_includes[k].includes[i] \notin Inventory)

C8_Witness ==
    /\ pc = "done"
    /\ \E f \in fs : f.fault = "UnicodeDecodeError" /\ TruePath(f) \in ScannedPaths
    /\ errors # <<>>
    /\ ReportedPaths # {}

====
